---- MODULE Spec2Model ----
(***************************************************************************)
(* Model of deteccion_caras_haar.py: a script that opens camera 0, and in  *)
(* a loop reads a frame, runs a Haar cascade on it, selects the largest    *)
(* detection, derives its position relative to the frame centre, draws an  *)
(* overlay, shows the frame and leaves the loop when a read fails or the   *)
(* window is no longer visible; it then releases the camera and destroys   *)
(* the windows.                                                            *)
(*                                                                         *)
(* The camera, the cascade and the window backend are external: what they  *)
(* return (isOpened, ret, the frame's size, the detections, the window's   *)
(* visibility) is a nondeterministic choice from bounded sets.             *)
(*                                                                         *)
(* A Python float that the script computes as a quotient of two integers   *)
(* is kept as the reduced fraction <<n, d>>, d > 0; 0.0 is <<0, 1>>.       *)
(* An unbound Python name and the value None are the empty tuple <<>>.     *)
(***************************************************************************)
EXTENDS Integers, Sequences, FiniteSets

\* ---- bounds of the model ------------------------------------------------
\* Frames are W x H with W, H in {MaxDim - 1, MaxDim}: an even and an odd size.
MaxDim == 3
\* Detected rectangles have sides in 1..MaxSide.
MaxSide == 2
\* The detector returns at most MaxFaces rectangles for one frame.
MaxFaces == 2
\* cap.read() is called at most MaxReads times in a run.
MaxReads == 2

VARIABLES
    pc,         \* position in the script
    opened,     \* cap.isOpened(); FALSE while no capture exists (before line 30)
    err,        \* the uncaught exception that ended the script, "" if none
    ret,        \* ret of line 40
    frame,      \* frame of line 40: a record, or <<>> (None / unbound)
    faces,      \* faces of line 46
    w, h,       \* gray.shape of line 50
    face,       \* <<x, y, fw, fh>> of line 54
    centre,     \* <<cx, cy>> of line 55
    msg_x, msg_y, msg_z,
    window,     \* TRUE while the window "Face detection" exists
    \* history of the calls made on the external collaborators
    opens,      \* calls of cv2.VideoCapture
    reads,      \* calls of cap.read()
    detects,    \* calls of detectMultiScale
    shows,      \* calls of cv2.imshow
    drawn,      \* frames on which cv2.rectangle and cv2.putText drew
    checks,     \* calls of cv2.getWindowProperty
    releases,   \* calls of cap.release()
    destroys,   \* calls of cv2.destroyAllWindows()
    failedRead, \* index of the read that returned ret = False, 0 if none
    closedAt    \* index of the visibility check that reported < 1, 0 if none

vars == <<pc, opened, err, ret, frame, faces, w, h, face, centre,
          msg_x, msg_y, msg_z, window, opens, reads, detects, shows, drawn,
          checks, releases, destroys, failedRead, closedAt>>

locals == <<faces, w, h, face, centre>>
msg == <<msg_x, msg_y, msg_z>>
history == <<opens, reads, detects, shows, drawn, checks, releases,
             destroys, failedRead, closedAt>>

\* ---- values -------------------------------------------------------------
None == <<>>

Abs(n) == IF n < 0 THEN -n ELSE n

RECURSIVE GCD(_, _)
GCD(a, b) == IF b = 0 THEN a ELSE GCD(b, a % b)

\* The float n / d (true division of two ints, d > 0) as a reduced fraction.
TrueDiv(n, d) ==
    LET g == GCD(Abs(n), d) IN <<n \div g, d \div g>>

Zero == <<0, 1>>

\* f"{v:.2f}": v in hundredths, rounded to nearest, a tie to the even digit
\* (every tie of a fraction with a denominator of 1 or 2 is exact in binary).
Fmt2(v) ==
    LET t  == 100 * v[1]
        fl == t \div v[2]
        r  == t - fl * v[2]
    IN  IF 2 * r < v[2] THEN fl
        ELSE IF 2 * r > v[2] THEN fl + 1
        ELSE IF fl % 2 = 0 THEN fl ELSE fl + 1

\* ---- the external collaborators' answers --------------------------------
Dims == (MaxDim - 1)..MaxDim

\* Rectangles the detector may report for a w x h image; a rectangle may
\* reach past the right or bottom edge.
Rects(wd, ht) ==
    { <<x, y, fw, fh>> : x \in 0..(wd - 1), y \in 0..(ht - 1),
                         fw \in 1..MaxSide, fh \in 1..MaxSide }

\* Rectangles of the results with several detections: all sizes, one corner.
CornerRects == { <<0, 0, fw, fh>> : fw \in 1..MaxSide, fh \in 1..MaxSide }

\* Results of detectMultiScale: the empty result, every single rectangle,
\* and every sequence of 2..MaxFaces corner rectangles in every order.
DetectionSets(wd, ht) ==
    {<<>>} \cup { <<r>> : r \in Rects(wd, ht) }
           \cup UNION { [1..n -> CornerRects] : n \in 2..MaxFaces }

\* ---- the frame processor's arithmetic -----------------------------------
\* cap.read() hands out a new image every call: nothing is drawn on it.
\* Variant: the capture hands out the previous image buffer again.
FreshFrame_reused(wd, ht) ==
    IF DOMAIN frame = {} THEN [w |-> wd, h |-> ht, rect |-> None, text |-> None]
    ELSE [frame EXCEPT !.w = wd, !.h = ht]

FreshFrame(wd, ht) == [w |-> wd, h |-> ht, rect |-> None, text |-> None]

\* cv2.cvtColor(frame, COLOR_BGR2GRAY).shape: the frame's own height, width.
GrayShape(f) == <<f.h, f.w>>

\* key=lambda rect: rect[2] * rect[3]
Area(rect) == rect[3] * rect[4]

\* max(faces, key=...): the builtin walks the sequence and replaces its
\* candidate only by an element whose key is strictly greater.
RECURSIVE MaxFrom(_, _, _)
MaxFrom(fs, i, best) ==
    IF i > Len(fs) THEN best
    ELSE MaxFrom(fs, i + 1, IF Area(fs[i]) > Area(best) THEN fs[i] ELSE best)

\* Variant: a candidate is replaced by an element of equal key too.
RECURSIVE MaxFrom_last(_, _, _)
MaxFrom_last(fs, i, best) ==
    IF i > Len(fs) THEN best
    ELSE MaxFrom_last(fs, i + 1,
                      IF Area(fs[i]) >= Area(best) THEN fs[i] ELSE best)

PyMax_last(fs) == MaxFrom_last(fs, 2, fs[1])

PyMax(fs) == MaxFrom(fs, 2, fs[1])

\* cx, cy = x + fw // 2, y + fh // 2
\* Variant: the half sides rounded up.
Centre_ceil(r) == <<r[1] + (r[3] + 1) \div 2, r[2] + (r[4] + 1) \div 2>>

Centre(r) == <<r[1] + r[3] \div 2, r[2] + r[4] \div 2>>

\* msg_x = (cx - w // 2) / (w // 2)
\* Variant: the divisor is the half width rounded up.
RelX_ceilhalf(cx, wd) == TrueDiv(cx - wd \div 2, (wd + 1) \div 2)

RelX(cx, wd) == TrueDiv(cx - wd \div 2, wd \div 2)

\* msg_y = (cy - h // 2) / (h // 2)
\* Variant: the half height is not subtracted.
RelY_uncentred(cy, ht) == TrueDiv(cy, ht \div 2)

RelY(cy, ht) == TrueDiv(cy - ht \div 2, ht \div 2)

\* msg_z = fw * fh
\* Variant: the area as a fraction of the frame's area.
RelZ_fraction(fw, fh, wd, ht) == TrueDiv(fw * fh, wd * ht)

RelZ(fw, fh, wd, ht) == <<fw * fh, 1>>

\* cv2.rectangle and cv2.putText draw on the colour frame.
Annotate(f, r, mx, my) ==
    [f EXCEPT !.rect = <<r[1], r[2], r[1] + r[3], r[2] + r[4]>>,
              !.text = <<Fmt2(mx), Fmt2(my)>>]

\* ---- the script ---------------------------------------------------------
Init ==
    /\ pc = "start"
    /\ opened = FALSE
    /\ err = ""
    /\ ret = None
    /\ frame = None
    /\ faces = None
    /\ w = None
    /\ h = None
    /\ face = None
    /\ centre = None
    /\ msg_x = None
    /\ msg_y = None
    /\ msg_z = None
    /\ window = FALSE
    /\ opens = 0
    /\ reads = 0
    /\ detects = 0
    /\ shows = 0
    /\ drawn = 0
    /\ checks = 0
    /\ releases = 0
    /\ destroys = 0
    /\ failedRead = 0
    /\ closedAt = 0

\* line 30: cap = cv2.VideoCapture(0); the device opens or it does not.
VideoCapture ==
    /\ pc = "start"
    /\ \E ok \in BOOLEAN : opened' = ok
    /\ opens' = opens + 1
    /\ pc' = "isOpened"
    /\ UNCHANGED <<err, ret, frame, locals, msg, window, reads, detects,
                   shows, drawn, checks, releases, destroys, failedRead,
                   closedAt>>

\* lines 32-33: if not cap.isOpened(): raise RuntimeError(...)
\* Variant: the result of isOpened() is not acted on.
IsOpened_ignored ==
    /\ pc = "isOpened"
    /\ pc' = "read"
    /\ UNCHANGED <<opened, err, ret, frame, locals, msg, window, history>>

IsOpened ==
    /\ pc = "isOpened"
    /\ IF opened
         THEN pc' = "read" /\ err' = err
         ELSE pc' = "error" /\ err' = "RuntimeError: Camera not accesible"
    /\ UNCHANGED <<opened, ret, frame, locals, msg, window, history>>

\* lines 40-42: ret, frame = cap.read(); if not ret: break.
\* A capture that is not open, or was released, yields ret = False.
\* faces, h, w, x, y, fw, fh, cx, cy are dead here (each is assigned again
\* before it is read), so the model forgets their values at this point.
\* Variant: a failed read goes on to the next read (continue for break).
Read_nobreak ==
    /\ pc = "read"
    /\ reads < MaxReads
    /\ reads' = reads + 1
    /\ \E r \in (IF opened /\ releases = 0 THEN BOOLEAN ELSE {FALSE}) :
         /\ ret' = r
         /\ IF r
              THEN /\ \E wd \in Dims, ht \in Dims : frame' = FreshFrame(wd, ht)
                   /\ failedRead' = failedRead
              ELSE /\ frame' = None
                   /\ failedRead' = reads + 1
         /\ pc' = IF r THEN "process" ELSE "read"
    /\ faces' = None /\ w' = None /\ h' = None /\ face' = None /\ centre' = None
    /\ UNCHANGED <<opened, err, msg, window, opens, detects, shows, drawn,
                   checks, releases, destroys, closedAt>>

Read ==
    /\ pc = "read"
    /\ reads < MaxReads
    /\ reads' = reads + 1
    /\ \E r \in (IF opened /\ releases = 0 THEN BOOLEAN ELSE {FALSE}) :
         /\ ret' = r
         /\ IF r
              THEN /\ \E wd \in Dims, ht \in Dims : frame' = FreshFrame(wd, ht)
                   /\ failedRead' = failedRead
                   /\ pc' = "process"
              ELSE /\ frame' = None
                   /\ failedRead' = reads + 1
                   /\ pc' = "release"
    /\ faces' = None /\ w' = None /\ h' = None /\ face' = None /\ centre' = None
    /\ UNCHANGED <<opened, err, msg, window, opens, detects, shows, drawn,
                   checks, releases, destroys, closedAt>>

\* lines 44-73, the body of one iteration up to the display:
\* cvtColor, detectMultiScale, gray.shape, the reset of msg_x, msg_y, msg_z,
\* the selection, the derivation and the overlay when a face was detected,
\* then imshow and waitKey(1).
Process ==
    /\ pc = "process"
    /\ LET shape == GrayShape(frame) IN
       \E fs \in DetectionSets(shape[2], shape[1]) :
         /\ faces' = fs
         /\ detects' = detects + 1
         /\ h' = shape[1]
         /\ w' = shape[2]
         /\ IF Len(fs) > 0
              THEN \E r \in {PyMax(fs)} :
                   \E c \in {Centre(r)} :
                   \E mx \in {RelX(c[1], shape[2])} :
                   \E my \in {RelY(c[2], shape[1])} :
                       /\ face' = r
                       /\ centre' = c
                       /\ msg_x' = mx
                       /\ msg_y' = my
                       /\ msg_z' = RelZ(r[3], r[4], shape[2], shape[1])
                       /\ frame' = Annotate(frame, r, mx, my)
                       /\ drawn' = drawn + 1
              ELSE /\ msg_x' = Zero
                   /\ msg_y' = Zero
                   /\ msg_z' = Zero
                   /\ UNCHANGED <<face, centre, frame, drawn>>
    /\ window' = TRUE
    /\ shows' = shows + 1
    /\ pc' = "visible"
    /\ UNCHANGED <<opened, err, ret, opens, reads, checks, releases,
                   destroys, failedRead, closedAt>>

\* lines 76-77: if cv2.getWindowProperty(ventana, WND_PROP_VISIBLE) < 1: break
\* Variant: the loop goes on although the window is not visible.
GetWindowProperty_nobreak ==
    /\ pc = "visible"
    /\ checks' = checks + 1
    /\ \E visible \in BOOLEAN :
         closedAt' = IF visible THEN closedAt ELSE checks + 1
    /\ pc' = "read"
    /\ UNCHANGED <<opened, err, ret, frame, locals, msg, window, opens,
                   reads, detects, shows, drawn, releases, destroys,
                   failedRead>>

GetWindowProperty ==
    /\ pc = "visible"
    /\ checks' = checks + 1
    /\ \E visible \in BOOLEAN :
         IF visible
           THEN pc' = "read" /\ closedAt' = closedAt
           ELSE pc' = "release" /\ closedAt' = checks + 1
    /\ UNCHANGED <<opened, err, ret, frame, locals, msg, window, opens,
                   reads, detects, shows, drawn, releases, destroys,
                   failedRead>>

\* line 81: cap.release()
\* Variant: the camera is not released.
Release_missing ==
    /\ pc = "release"
    /\ pc' = "destroy"
    /\ UNCHANGED <<opened, err, ret, frame, locals, msg, window, history>>

Release ==
    /\ pc = "release"
    /\ releases' = releases + 1
    /\ pc' = "destroy"
    /\ UNCHANGED <<opened, err, ret, frame, locals, msg, window, opens,
                   reads, detects, shows, drawn, checks, destroys, failedRead,
                   closedAt>>

\* line 82: cv2.destroyAllWindows()
DestroyAllWindows ==
    /\ pc = "destroy"
    /\ destroys' = destroys + 1
    /\ window' = FALSE
    /\ pc' = "done"
    /\ UNCHANGED <<opened, err, ret, frame, locals, msg, opens, reads,
                   detects, shows, drawn, checks, releases, failedRead,
                   closedAt>>

Next ==
    \/ VideoCapture
    \/ IsOpened
    \/ Read
    \/ Process
    \/ GetWindowProperty
    \/ Release
    \/ DestroyAllWindows

Spec == Init /\ [][Next]_vars

\* ---- properties ---------------------------------------------------------
\* The body of an iteration has run and its frame is on display.
Shown == pc = "visible"

\* A face was selected in the iteration on display.
Selected == Shown /\ Len(faces) > 0

\* The least index of a rectangle of fs whose width * height is maximal.
FirstLargest(fs) ==
    CHOOSE i \in 1..Len(fs) :
        /\ \A j \in 1..Len(fs) : fs[j][3] * fs[j][4] <= fs[i][3] * fs[i][4]
        /\ \A j \in 1..(i - 1) : fs[j][3] * fs[j][4] < fs[i][3] * fs[i][4]

\* C1: whenever the detector's result is not empty, the selected face is the
\* rectangle of the result with maximal fw * fh, and among several of that
\* area the one the detector enumerated first.
C1_SelectsFirstLargest ==
    Selected => face = faces[FirstLargest(faces)]

\* Two different rectangles share the maximal area and the first was taken.
C1_Witness ==
    /\ Selected
    /\ Len(faces) = 2
    /\ faces[1] # faces[2]
    /\ faces[1][3] * faces[1][4] = faces[2][3] * faces[2][4]
    /\ face = faces[1]

\* C2: an iteration whose detector result is empty ends with the position
\* (0.0, 0.0, 0.0) and shows a frame with no rectangle and no text on it,
\* whatever earlier iterations detected and drew.
C2_EmptyGivesSentinel ==
    (Shown /\ faces = <<>>) =>
        /\ msg_x = Zero /\ msg_y = Zero /\ msg_z = Zero
        /\ frame.rect = None /\ frame.text = None

\* An empty result after an iteration that drew an overlay.
C2_Witness ==
    Shown /\ faces = <<>> /\ drawn > 0 /\ shows = 2

\* C3 as claimed: the offsets are (cx - W/2) / (W/2) and (cy - H/2) / (H/2)
\* with the exact halves W/2 and H/2, for odd and even W and H; that is,
\* msg_x * W = 2 * cx - W and msg_y * H = 2 * cy - H.
C3_ExactHalves ==
    Selected =>
        /\ msg_x[1] * w = (2 * centre[1] - w) * msg_x[2]
        /\ msg_y[1] * h = (2 * centre[2] - h) * msg_y[2]

\* The halves the offsets are taken from: W/2 for even W, (W-1)/2 for odd W.
Half(n) == IF n % 2 = 0 THEN n \div 2 ELSE (n - 1) \div 2

\* C3 amended: the offsets are (cx - W2) / W2 and (cy - H2) / H2 where W2 and
\* H2 are the halves rounded down and (cx, cy) = (x + fw/2, y + fh/2) with
\* these halves rounded down too; for even W and H that is the claimed value.
C3_FlooredHalves ==
    Selected =>
        /\ centre[1] = face[1] + Half(face[3])
        /\ centre[2] = face[2] + Half(face[4])
        /\ msg_x[1] * Half(w) = (centre[1] - Half(w)) * msg_x[2]
        /\ msg_y[1] * Half(h) = (centre[2] - Half(h)) * msg_y[2]
        /\ (w % 2 = 0) => msg_x[1] * w = (2 * centre[1] - w) * msg_x[2]
        /\ (h % 2 = 0) => msg_y[1] * h = (2 * centre[2] - h) * msg_y[2]

\* A face off the centre column of a frame of odd width.
C3_Witness ==
    Selected /\ w % 2 = 1 /\ msg_x # Zero

\* C4: when the N-th read yields no frame, N reads were made, N-1 iterations
\* ran in full (a detection, a display and a visibility check each), nothing
\* was processed or shown for the N-th read, no read follows it, and the
\* script goes on to its release and ends without an exception.
C4_StopsAtFailedRead ==
    failedRead > 0 =>
        /\ reads = failedRead
        /\ detects = failedRead - 1
        /\ shows = failedRead - 1
        /\ checks = failedRead - 1
        /\ closedAt = 0
        /\ err = ""
        /\ pc \in {"release", "destroy", "done"}

\* The second read failed and the script has ended.
C4_Witness ==
    pc = "done" /\ failedRead = 2 /\ shows = 1

\* C5: when the visibility check of iteration M reports the window as not
\* visible, the loop ends there: M reads and M displays were made in all.
C5_StopsWhenClosed ==
    closedAt > 0 =>
        /\ reads = closedAt
        /\ shows = closedAt
        /\ checks = closedAt
        /\ failedRead = 0
        /\ pc \in {"release", "destroy", "done"}

\* The window was closed during the second iteration; the script has ended.
C5_Witness ==
    pc = "done" /\ closedAt = 2

\* C6: when the camera does not open, the script ends with the RuntimeError
\* that reports it; the device was opened once, and nothing was read,
\* detected or shown.
C6_OpenFailureIsFatal ==
    (pc # "start" /\ ~opened) =>
        /\ pc \in {"isOpened", "error"}
        /\ pc = "error" => err = "RuntimeError: Camera not accesible"
        /\ opens = 1
        /\ reads = 0 /\ detects = 0 /\ shows = 0
        /\ releases = 0 /\ destroys = 0
        /\ ~window

\* The script has ended with the error.
C6_Witness ==
    pc = "error" /\ ~opened /\ err # ""

\* C7: with the camera open, whichever exit ends the loop, the script ends
\* having released the camera once and destroyed the windows once, both
\* after the loop's exit, and nothing is read or shown after the release.
C7_ReleasedOnce ==
    /\ [](pc = "done" => releases = 1 /\ destroys = 1)
    /\ [](releases <= 1 /\ destroys <= releases)
    /\ [](releases > 0 => (failedRead > 0 \/ closedAt > 0))
    /\ [][releases > 0 => (reads' = reads /\ shows' = shows)]_vars

\* The script ended by a failed read after a full iteration, all released.
C7_Witness ==
    pc = "done" /\ releases = 1 /\ destroys = 1 /\ failedRead > 0 /\ shows > 0

\* C8: a selected face whose true centre is the frame's centre
\* (x + fw/2 = W/2 and y + fh/2 = H/2) has both offsets 0.0, for odd and
\* even sizes alike.
C8_CentredIsZero ==
    (/\ Selected
     /\ 2 * face[1] + face[3] = w
     /\ 2 * face[2] + face[4] = h) => (msg_x = Zero /\ msg_y = Zero)

\* A centred face of odd width in a frame of odd width.
C8_Witness ==
    /\ Selected
    /\ 2 * face[1] + face[3] = w
    /\ 2 * face[2] + face[4] = h
    /\ w % 2 = 1
    /\ face[3] % 2 = 1
    /\ msg_x = Zero

\* C9: the third component of the position is fw * fh of the selected
\* rectangle, whatever the frame's size and the rectangle's position.
C9_AreaIsProduct ==
    Selected => msg_z = <<face[3] * face[4], 1>>

\* A 2 x 1 face away from the origin in a frame that is not square.
C9_Witness ==
    /\ Selected
    /\ face[3] = 2 /\ face[4] = 1
    /\ face[1] > 0
    /\ w # h
    /\ msg_z = <<2, 1>>

\* The selected rectangle lies wholly inside the frame.
Inside ==
    /\ 0 <= face[1] /\ 0 <= face[2]
    /\ face[3] >= 1 /\ face[4] >= 1
    /\ face[1] + face[3] <= w
    /\ face[2] + face[4] <= h

\* C10: for a frame of at least 2 x 2 and a selected rectangle wholly inside
\* it, both offsets are in [-1, 1]; an offset outside [-1, 1] comes only
\* from a rectangle that reaches past the frame.
C10_InsideIsBounded ==
    (Selected /\ w >= 2 /\ h >= 2 /\ Inside) =>
        /\ -msg_x[2] <= msg_x[1] /\ msg_x[1] <= msg_x[2]
        /\ -msg_y[2] <= msg_y[1] /\ msg_y[1] <= msg_y[2]

\* A rectangle inside the frame whose offsets are the two ends of [-1, 1].
C10_Witness ==
    Selected /\ Inside /\ msg_x = <<1, 1>> /\ msg_y = <<-1, 1>>

====
